---- MODULE Spec2Model ----
(***************************************************************************)
(* A model of procare-download: main.py (the orchestrator), login.py (the  *)
(* session authenticator) and dashboard_scraper.py (roster, activity-feed  *)
(* walker, filename derivation and the download loop).                     *)
(*                                                                         *)
(* Python strings that the program inspects character by character (URLs,  *)
(* date arguments) are sequences of one-character strings; strings that it *)
(* only builds and passes on (file names, request parameters) are TLA+     *)
(* strings, built from the characters by Str.                              *)
(***************************************************************************)
EXTENDS Integers, Sequences, FiniteSets, TLC

(***************************************************************************)
(* Bounds of the model.                                                    *)
(***************************************************************************)
\* Longest explicit prefix of pages in a layout feed.
MaxScript == 2
\* Most activities on one page of a layout feed.
MaxPageLen == 2
\* How many times the environment may let the wall clock jump during a walk.
MaxLate == 1
\* Activities on the single page of the bulk feed.
BulkItems == 250
\* How many downloads of one batch the environment may let fail.
MaxFailures == 3

(***************************************************************************)
(* Program constants.                                                      *)
(***************************************************************************)
\* dashboard_scraper.py:183  if page > 100
PageLimit == 100
\* dashboard_scraper.py:176  data.get('per_page', 30)
DefaultPerPage == 30
\* dashboard_scraper.py:324  (i - 1) % 100 == 0
BreakEvery == 100
\* dashboard_scraper.py:217/223  [a-f0-9-]{36}
TokenLen == 36
\* dashboard_scraper.py:112  time.sleep(1), in milliseconds
PageDelayMs == 1000
\* dashboard_scraper.py:272  time.sleep(0.5), in milliseconds
DownloadDelayMs == 500
\* dashboard_scraper.py:326  time.sleep(120), in milliseconds
BreakMs == 120000

(***************************************************************************)
(* Python values.                                                          *)
(***************************************************************************)
\* None where a string is expected (a sequence that is no character string).
None == <<"None">>
\* None where a dict is expected.
NoneDict == [py |-> "None"]
\* Python truthiness of an optional string: None and "" are falsy.
Truthy(s) == s # None /\ s # <<>>

Digits == <<"0", "1", "2", "3", "4", "5", "6", "7", "8", "9">>
IsDigit(c) == \E d \in 1..10 : Digits[d] = c
DigitVal(c) == (CHOOSE d \in 1..10 : Digits[d] = c) - 1

RECURSIVE Str(_)
\* The TLA+ string spelled by a sequence of characters.
Str(s) ==
    IF s = <<>> THEN ""
    ELSE IF Len(s) = 1 THEN s[1]
    ELSE Str(SubSeq(s, 1, Len(s) \div 2)) \o Str(SubSeq(s, (Len(s) \div 2) + 1, Len(s)))

RECURSIVE NumVal(_)
\* int() of a sequence of digits.
NumVal(s) == IF s = <<>> THEN 0 ELSE NumVal(SubSeq(s, 1, Len(s) - 1)) * 10 + DigitVal(s[Len(s)])

\* Zero-padded decimal, as strftime prints %m %d %H %M %S (two places) and %Y (four).
D2(n) == Digits[((n \div 10) % 10) + 1] \o Digits[(n % 10) + 1]
D4(n) == D2(n \div 100) \o D2(n % 100)

(***************************************************************************)
(* The wall clock: the day of the run and the milliseconds since midnight. *)
(***************************************************************************)
RunDate == [y |-> 2026, m |-> 11, d |-> 1]
StartMs == 12 * 3600 * 1000 + 400
\* What a slow response or a scheduling delay adds to the clock.
LatencyMs == 7 * 100

Second(ms) == ms \div 1000

\* datetime.now().strftime('%Y-%m-%d')
StrftimeDate(ms) == D4(RunDate.y) \o "-" \o D2(RunDate.m) \o "-" \o D2(RunDate.d)

\* datetime.now().strftime("%Y%m%d_%H%M%S")
StrftimeStamp(ms) ==
    LET s == Second(ms)
    IN  D4(RunDate.y) \o D2(RunDate.m) \o D2(RunDate.d) \o "_"
        \o D2(s \div 3600) \o D2((s \div 60) % 60) \o D2(s % 60)

(***************************************************************************)
(* main.py:39-52  datetime.strptime(arg, '%Y-%m-%d')                       *)
(***************************************************************************)
IsLeap(y) == (y % 4 = 0 /\ y % 100 # 0) \/ y % 400 = 0
DaysInMonth(y, m) ==
    IF m = 2 THEN (IF IsLeap(y) THEN 29 ELSE 28)
    ELSE IF m \in {4, 6, 9, 11} THEN 30 ELSE 31

\* The positions of "-" in s.
Dashes(s) == {p \in 1..Len(s) : s[p] = "-"}

AllDigits(s) == \A p \in 1..Len(s) : IsDigit(s[p])

\* TRUE when strptime(s, '%Y-%m-%d') returns, FALSE when it raises ValueError:
\* %Y is four digits, %m and %d one or two digits in range, "-" between them,
\* nothing left over, and the day exists in that month.
StrptimeOk(s) ==
    /\ Cardinality(Dashes(s)) = 2
    /\ LET p1 == CHOOSE p \in Dashes(s) : \A q \in Dashes(s) : p <= q
           p2 == CHOOSE p \in Dashes(s) : \A q \in Dashes(s) : q <= p
           ys == SubSeq(s, 1, p1 - 1)
           ms == SubSeq(s, p1 + 1, p2 - 1)
           ds == SubSeq(s, p2 + 1, Len(s))
       IN  /\ Len(ys) = 4 /\ AllDigits(ys) /\ NumVal(ys) >= 1
           /\ Len(ms) \in {1, 2} /\ AllDigits(ms) /\ NumVal(ms) \in 1..12
           /\ Len(ds) \in {1, 2} /\ AllDigits(ds)
           /\ NumVal(ds) \in 1..DaysInMonth(NumVal(ys), NumVal(ms))

(***************************************************************************)
(* dashboard_scraper.py:196-210  parse_date_for_folder                     *)
(***************************************************************************)
\* A JSON value that is no string (a number): truthy, and dateutil's parser
\* raises TypeError on it.
Number == <<"(number)">>
\* The key is not in the dict.
Missing == <<"(missing)">>

\* dict.get(key, ''): the value, '' when the key is missing.
GetOrEmpty(value) == IF value = Missing THEN <<>> ELSE value

\* Python's `a or b`.
Or(a, b) == IF Truthy(a) THEN a ELSE b

\* The positions of c in s.
Positions(s, c) == {p \in 1..Len(s) : s[p] = c}

\* The text before the first "T" of an ISO timestamp (all of s without one).
DatePart(s) ==
    IF Positions(s, "T") = {} THEN s
    ELSE SubSeq(s, 1, (CHOOSE p \in Positions(s, "T") : \A q \in Positions(s, "T") : p <= q) - 1)

\* The three fields of s around its two separators c.
Fields(s, c) ==
    LET p1 == CHOOSE p \in Positions(s, c) : \A q \in Positions(s, c) : p <= q
        p2 == CHOOSE p \in Positions(s, c) : \A q \in Positions(s, c) : q <= p
    IN  <<SubSeq(s, 1, p1 - 1), SubSeq(s, p1 + 1, p2 - 1), SubSeq(s, p2 + 1, Len(s))>>

NoDate == [ok |-> FALSE, y |-> 0, m |-> 0, d |-> 0]

\* The calendar day of year ys, month ms, day ds, when there is one.
Calendar(ys, ms, ds) ==
    IF /\ Len(ys) = 4 /\ AllDigits(ys) /\ NumVal(ys) >= 1
       /\ Len(ms) \in {1, 2} /\ AllDigits(ms) /\ NumVal(ms) \in 1..12
       /\ Len(ds) \in {1, 2} /\ AllDigits(ds)
       /\ NumVal(ds) \in 1..DaysInMonth(NumVal(ys), NumVal(ms))
    THEN [ok |-> TRUE, y |-> NumVal(ys), m |-> NumVal(ms), d |-> NumVal(ds)]
    ELSE NoDate

\* dateutil's parser.parse(s), on the forms the feed's dates take: the day of
\* "Y-M-D", of "Y-M-DTh:m:s<offset>" (the day as written, in the timestamp's
\* own offset) and of "M/D/Y"; ok is FALSE when it raises ValueError.
ParserParse(s) ==
    LET day == DatePart(s)
    IN  IF Cardinality(Positions(day, "-")) = 2
        THEN LET f == Fields(day, "-") IN Calendar(f[1], f[2], f[3])
        ELSE IF Cardinality(Positions(day, "/")) = 2
        THEN LET f == Fields(day, "/") IN Calendar(f[3], f[1], f[2])
        ELSE NoDate

\* parsed_date.strftime('%Y-%m-%d')
StrftimeOf(date) == D4(date.y) \o "-" \o D2(date.m) \o "-" \o D2(date.d)

\* TRUE when parse_date_for_folder returns the parsed day of date_string:
\* the string is not falsy (line 200) and parser.parse raises neither
\* TypeError nor ValueError (line 208).
ParsesToDay(date_string) ==
    /\ Truthy(date_string)
    /\ date_string # Number
    /\ ParserParse(date_string).ok

parse_date_for_folder(date_string, now) ==
    IF ParsesToDay(date_string) THEN StrftimeOf(ParserParse(date_string))
    ELSE StrftimeDate(now)

(***************************************************************************)
(* URLs, as the activity feed carries them.                                *)
(***************************************************************************)
HexLower == <<"0", "1", "2", "3", "4", "5", "6", "7", "8", "9", "a", "b", "c", "d", "e", "f">>
HexUpper == <<"0", "1", "2", "3", "4", "5", "6", "7", "8", "9", "A", "B", "C", "D", "E", "F">>

\* An 8-4-4-4-12 identifier over the given hexadecimal alphabet.
Uuid(alphabet) ==
    [i \in 1..TokenLen |-> IF i \in {9, 14, 19, 24} THEN "-" ELSE alphabet[((7 * i) % 16) + 1]]

UuidLower == Uuid(HexLower)
UuidUpper == Uuid(HexUpper)

Base == <<"h", "t", "t", "p", "s", ":", "/", "/", "c", "d", "n", "/", "m">>
Query == <<"?", "s", "=", "1">>
Jpg == <<"j", "p", "g">>
Mp4 == <<"m", "p", "4">>
Mov == <<"m", "o", "v">>
Avi == <<"a", "v", "i">>
Png == <<"p", "n", "g">>

\* https://cdn/m/<stem>.<ext>?s=1
Url(stem, ext) == Base \o <<"/">> \o stem \o <<".">> \o ext \o Query

(***************************************************************************)
(* dashboard_scraper.py:212-229  extract_filename_from_url                 *)
(***************************************************************************)
\* The character class [a-f0-9-].
TokenChar(c) == \E d \in 1..16 : HexLower[d] = c \/ c = "-"

StartsWith(s, p, lit) ==
    /\ p + Len(lit) - 1 <= Len(s)
    /\ SubSeq(s, p, p + Len(lit) - 1) = lit

\* r'/([a-f0-9-]{36})\.<ext>' matches url starting at position p.
MatchAt(url, p, ext) ==
    /\ url[p] = "/"
    /\ p + TokenLen <= Len(url)
    /\ \A j \in 1..TokenLen : TokenChar(url[p + j])
    /\ StartsWith(url, p + TokenLen + 1, <<".">> \o ext)

\* re.search(r'/([a-f0-9-]{36})\.(e1|e2|...)', url): the leftmost match and its
\* two groups, or None.
ReSearch(url, exts) ==
    LET ps == {p \in 1..Len(url) : \E n \in 1..Len(exts) : MatchAt(url, p, exts[n])}
    IN  IF ps = {} THEN NoneDict
        ELSE LET p == CHOOSE q \in ps : \A r \in ps : q <= r
                 n == CHOOSE m \in 1..Len(exts) :
                        /\ MatchAt(url, p, exts[m])
                        /\ \A l \in 1..(m - 1) : ~MatchAt(url, p, exts[l])
             IN  [group1 |-> SubSeq(url, p + 1, p + TokenLen), group2 |-> exts[n]]

\* The pattern the video branch searches for (line 217).
VideoPattern == <<Mp4, Mov, Avi>>
\* The pattern the photo branch searches for (line 223).
PhotoPattern == <<Jpg>>

\* Lines 227-229: media_<YYYYMMDD_HHMMSS>.<file_extension>
FallbackName(now, file_extension) ==
    "media_" \o StrftimeStamp(now) \o "." \o file_extension

\* One pattern for every kind of item.
PatternFor_anyKind(file_extension) == <<Jpg, Mp4, Mov, Avi>>

\* The pattern searched for an item with this file_extension (lines 215-223).
PatternFor(file_extension) ==
    IF file_extension = "mp4" THEN VideoPattern ELSE PhotoPattern

extract_filename_from_url(url, file_extension, now) ==
    LET match == ReSearch(url, PatternFor(file_extension))
    IN  IF match # NoneDict
        THEN Str(match.group1) \o "." \o Str(match.group2)
        ELSE FallbackName(now, file_extension)

\* TRUE when the call reads the clock (falls through to line 228).
UsesFallback(url, file_extension) ==
    ReSearch(url, PatternFor(file_extension)) = NoneDict

(***************************************************************************)
(* The activity records of the feed.  A page names its activities by       *)
(* shape; the record itself is built when the page is served.              *)
(***************************************************************************)
EmptyDict == [py |-> "{}"]

\* The dates of the feed: the media record's timestamp, the activity's day (one
\* day earlier, to tell them apart), a day written month first, a day that
\* does not exist and a text that is no date.
MediaStamp == <<"2", "0", "2", "5", "-", "0", "8", "-", "1", "5", "T", "2", "3", ":", "3", "0", ":", "0", "0", "-", "0", "4", ":", "0", "0">>
ActivityDay == <<"2", "0", "2", "5", "-", "0", "8", "-", "1", "4">>
MonthFirstDay == <<"0", "8", "/", "1", "3", "/", "2", "0", "2", "5">>
NoSuchDay == <<"2", "0", "2", "5", "-", "0", "2", "-", "3", "0">>
NotADate == <<"u", "n", "k", "n", "o", "w", "n">>

Media(is_video, video_file_url, main_url) ==
    [is_video |-> is_video, video_file_url |-> video_file_url, main_url |-> main_url,
     date |-> MediaStamp]

\* A photo whose media record has the given date.
Dated(date) == [Media(FALSE, None, Url(UuidLower, Jpg)) EXCEPT !.date = date]

ShapeNames ==
    {"photo", "video", "video_mov", "video_avi", "video_jpg_url", "photo_mp4_url",
     "photo_upper", "photo_prefixed", "photo_png", "photo_plain", "note",
     "photo_no_media", "photo_empty_media", "photo_no_url", "video_flag_only",
     "photo_video_url_only"}

\* The date values by name, and the shapes "photo dated <media date>/<activity
\* date>" of a photo whose two date fields hold the named values.
DateNamed ==
    [stamp |-> MediaStamp, day |-> ActivityDay, month_first |-> MonthFirstDay,
     no_such_day |-> NoSuchDay, not_a_date |-> NotADate, number |-> Number,
     null |-> None, empty |-> <<>>, missing |-> Missing]
DateNames == DOMAIN DateNamed
DatedName(media_date, activity_date) ==
    "photo dated " \o media_date \o "/" \o activity_date
DatedNames == {DatedName(a, b) : a \in DateNames, b \in DateNames}
DatesOf(name) ==
    CHOOSE ab \in DateNames \X DateNames : DatedName(ab[1], ab[2]) = name

Shape(name) ==
    CASE name = "photo" ->
           [activity_type |-> "photo_activity",
            activiable |-> Media(FALSE, None, Url(UuidLower, Jpg))]
      [] name = "video" ->
           [activity_type |-> "video_activity",
            activiable |-> Media(TRUE, Url(UuidLower, Mp4), Url(UuidLower, Jpg))]
      [] name = "video_mov" ->
           [activity_type |-> "video_activity",
            activiable |-> Media(TRUE, Url(UuidLower, Mov), None)]
      [] name = "video_avi" ->
           [activity_type |-> "photo_activity",
            activiable |-> Media(TRUE, Url(UuidLower, Avi), None)]
      [] name = "video_jpg_url" ->
           [activity_type |-> "video_activity",
            activiable |-> Media(TRUE, Url(UuidLower, Jpg), None)]
      [] name = "photo_mp4_url" ->
           [activity_type |-> "photo_activity",
            activiable |-> Media(FALSE, None, Url(UuidLower, Mp4))]
      [] name = "photo_upper" ->
           [activity_type |-> "photo_activity",
            activiable |-> Media(FALSE, None, Url(UuidUpper, Jpg))]
      [] name = "photo_prefixed" ->
           [activity_type |-> "photo_activity",
            activiable |-> Media(FALSE, None, Url(<<"i", "m", "g", "_">> \o UuidLower, Jpg))]
      [] name = "photo_png" ->
           [activity_type |-> "photo_activity",
            activiable |-> Media(FALSE, None, Url(UuidLower, Png))]
      [] name = "photo_plain" ->
           [activity_type |-> "photo_activity",
            activiable |-> Media(FALSE, None, Url(<<"p", "i", "c">>, Jpg))]
      [] name = "note" ->
           [activity_type |-> "note_activity",
            activiable |-> Media(FALSE, None, Url(UuidLower, Jpg))]
      [] name = "photo_no_media" ->
           [activity_type |-> "photo_activity", activiable |-> NoneDict]
      [] name = "photo_empty_media" ->
           [activity_type |-> "photo_activity", activiable |-> EmptyDict]
      [] name = "photo_no_url" ->
           [activity_type |-> "photo_activity", activiable |-> Media(FALSE, None, <<>>)]
      [] name = "video_flag_only" ->
           [activity_type |-> "video_activity",
            activiable |-> Media(TRUE, None, Url(UuidLower, Jpg))]
      [] name = "photo_video_url_only" ->
           [activity_type |-> "photo_activity",
            activiable |-> Media(FALSE, Url(UuidLower, Mp4), None)]
      [] name \in DatedNames ->
           [activity_type |-> "photo_activity",
            activiable |-> Dated(DateNamed[DatesOf(name)[1]])]

\* The activity_date of an activity of the given shape.
ActivityDate(name) ==
    IF name \in DatedNames THEN DateNamed[DatesOf(name)[2]] ELSE ActivityDay

\* The k-th activity of page `page`, of the given shape.
Activity(name, page, k) ==
    [id |-> <<page, k>>,
     activity_type |-> Shape(name).activity_type,
     activiable |-> Shape(name).activiable,
     activity_date |-> ActivityDate(name)]

(***************************************************************************)
(* dashboard_scraper.py:123-170  one page of get_dashboard_photos' loop    *)
(***************************************************************************)
\* A filter that knows photos only.
IsMediaActivity_photoOnly(activity) ==
    /\ activity.activity_type = "photo_activity"
    /\ activity.activiable \notin {NoneDict, EmptyDict}

\* Line 125: the activity is a photo or video and its activiable is truthy.
IsMediaActivity(activity) ==
    /\ activity.activity_type \in {"photo_activity", "video_activity"}
    /\ activity.activiable \notin {NoneDict, EmptyDict}

\* Lines 132-139: which URL the item takes: "video", "main" or "skip".
UrlChoice(activiable) ==
    IF activiable.is_video /\ Truthy(activiable.video_file_url) THEN "video"
    ELSE IF Truthy(activiable.main_url) THEN "main"
    ELSE "skip"

\* TRUE when the loop body appends an item for the activity.
Emits(activity) ==
    IsMediaActivity(activity) /\ UrlChoice(activity.activiable) # "skip"

MediaUrl(activiable) ==
    IF UrlChoice(activiable) = "video" THEN activiable.video_file_url ELSE activiable.main_url

FileExtension(activiable) ==
    IF UrlChoice(activiable) = "video" THEN "mp4" ELSE "jpg"

\* Line 145: activiable.get('date', '') or activity.get('activity_date', '')
ActivityDateRaw(activity) ==
    Or(GetOrEmpty(activity.activiable.date), GetOrEmpty(activity.activity_date))

\* Lines 152-168: the dict appended for an activity, the clock reading `now`.
MediaItem(activity, now) ==
    LET activiable == activity.activiable
        media_url == MediaUrl(activiable)
        file_extension == FileExtension(activiable)
        activity_date_raw == ActivityDateRaw(activity)
    IN  [id |-> activity.id,
         url |-> Str(media_url),
         filename |-> extract_filename_from_url(media_url, file_extension, now),
         activity_type |-> activity.activity_type,
         folder_date |-> parse_date_for_folder(activity_date_raw, now),
         is_video |-> activiable.is_video,
         file_extension |-> file_extension]

\* The positions of the activities the loop appends an item for, in order.
EmittingPositions(daily_activities) ==
    SelectSeq([k \in 1..Len(daily_activities) |-> k],
              LAMBDA k : Emits(daily_activities[k]))

\* Lines 123-168: media_this_page; Clock[k] is the wall clock while activity
\* k is handled.
MediaFrom(daily_activities, Clock) ==
    LET at == EmittingPositions(daily_activities)
    IN  [j \in 1..Len(at) |-> MediaItem(daily_activities[at[j]], Clock[at[j]])]

\* The clock readings of line 228 while the page is handled: one entry
\* [id, second, file_extension] per item named by the fallback.
StampsFrom(daily_activities, Clock) ==
    LET at == SelectSeq(EmittingPositions(daily_activities),
                        LAMBDA k : UsesFallback(MediaUrl(daily_activities[k].activiable),
                                                FileExtension(daily_activities[k].activiable)))
    IN  [j \in 1..Len(at) |->
            [id |-> daily_activities[at[j]].id,
             second |-> Second(Clock[at[j]]),
             file_extension |-> FileExtension(daily_activities[at[j]].activiable)]]

(***************************************************************************)
(* The environment: command line, secrets file, and the upstream service.  *)
(***************************************************************************)
\* --from / --to as argparse hands them over: None when the option is absent.
FromArgs ==
    {None, <<>>,
     <<"2", "0", "2", "5", "-", "0", "8", "-", "0", "1">>,
     <<"2", "0", "2", "5", "-", "0", "2", "-", "3", "0">>}
ToArgs ==
    {None, <<>>,
     <<"2", "0", "2", "5", "-", "0", "8", "-", "3", "1">>,
     <<"0", "8", "/", "3", "1", "/", "2", "0", "2", "5">>}
BothDates ==
    [date_from |-> <<"2", "0", "2", "5", "-", "0", "8", "-", "0", "1">>,
     date_to |-> <<"2", "0", "2", "5", "-", "0", "8", "-", "3", "1">>]

\* os.getenv of the three secrets: None when a variable is not set.
CredValues == {"None", "set"}
CredSets == [url : CredValues, username : CredValues, password : CredValues]

\* The answers to the login POST: an HTTP status, or 0 for no response at all.
LoginResponses ==
    {[status |-> 200, body |-> "session"], [status |-> 401, body |-> "bad password"],
     [status |-> 500, body |-> "server error"], [status |-> 0, body |-> ""]}
NoResponse == [status |-> -1, body |-> ""]

\* The answers to the kids GET: a request error, or the list of kids.
Rosters ==
    {[status |-> "error", kids |-> <<>>], [status |-> "ok", kids |-> <<>>],
     [status |-> "ok", kids |-> <<"kidA">>], [status |-> "ok", kids |-> <<"kidA", "kidB">>]}
TwoKids == [status |-> "ok", kids |-> <<"kidA", "kidB">>]

\* One answer to an activities GET.
OkPage(acts, has_per_page, per_page) ==
    [status |-> "ok", acts |-> acts, has_per_page |-> has_per_page, per_page |-> per_page]
ErrorPage == [status |-> "error", acts |-> <<>>, has_per_page |-> FALSE, per_page |-> 0]
EmptyPage == OkPage(<<>>, FALSE, 0)
Photos(n) == [k \in 1..n |-> "photo"]

\* A feed answers page k with script[k], then `repeat` times with tail, then
\* with final for ever.
Feed(script, tail, repeat, final) ==
    [script |-> script, tail |-> tail, repeat |-> repeat, final |-> final]

ServerPage(f, k) ==
    IF k <= Len(f.script) THEN f.script[k]
    ELSE IF k <= Len(f.script) + f.repeat THEN f.tail
    ELSE f.final

SeqsUpTo(S, n) == UNION {[1..m -> S] : m \in 0..n}

\* Pages of plain photos of every length and advertised page size, and a
\* failing request.
LayoutPages ==
    {OkPage(Photos(n), FALSE, 0) : n \in 0..MaxPageLen}
    \cup {OkPage(Photos(n), TRUE, pp) : n \in 0..MaxPageLen, pp \in {0, 1, MaxPageLen}}
    \cup {ErrorPage}
LayoutFeeds == {Feed(sc, EmptyPage, 0, EmptyPage) : sc \in SeqsUpTo(LayoutPages, MaxScript)}

\* One page holding one or two activities of any shape.
ContentFeeds ==
    {Feed(<<OkPage(acts, FALSE, 0)>>, EmptyPage, 0, EmptyPage) :
        acts \in [1..1 -> ShapeNames] \cup [1..2 -> ShapeNames]}

\* One page holding one photo with any two values in its date fields.
DateFeeds ==
    {Feed(<<OkPage(<<name>>, FALSE, 0)>>, EmptyPage, 0, EmptyPage) : name \in DatedNames}

\* Full pages up to, at and beyond the page limit, and one page of many items.
LongFeeds ==
    {Feed(<<>>, OkPage(Photos(1), TRUE, 1), n, EmptyPage) :
        n \in {PageLimit - 1, PageLimit, 2 * PageLimit}}
    \cup {Feed(<<>>, OkPage(Photos(2), TRUE, 0), 2 * PageLimit, EmptyPage)}
    \cup {Feed(<<OkPage(Photos(BulkItems), FALSE, BulkItems + 1)>>, EmptyPage, 0, EmptyPage)}

\* The feed the command-line variations run against: two full pages, then a
\* short one.
ArgFeeds ==
    {Feed(<<OkPage(Photos(2), TRUE, 2), OkPage(Photos(2), TRUE, 2), OkPage(Photos(1), TRUE, 2)>>,
          EmptyPage, 0, EmptyPage)}

\* What one call of download_media can meet, `failed` calls having failed so far.
DownloadOutcomes(failed) ==
    IF failed < MaxFailures
    THEN {"ok", "request_error", "io_error", "makedirs_error"}
    ELSE {"ok"}

Absent == "(absent)"

VARIABLES
    pc,               \* where main is
    date_from,        \* args.date_from
    date_to,          \* args.date_to
    roster,           \* environment: the answer to the kids GET
    feed,             \* environment: the activity feed
    creds,            \* load_credentials()
    login_response,   \* environment: the answer to the login POST
    auth_data,        \* login_to_procare()'s return value
    console,          \* the diagnostics printed (not the per-page and per-item progress)
    login_posts,      \* number of login POSTs issued
    kids_gets,        \* number of kids GETs issued
    page_requests,    \* the params of every activities GET issued, in order
    media_gets,       \* number of media GETs issued
    params,           \* get_dashboard_photos: params
    page,             \* get_dashboard_photos: page
    all_photos,       \* get_dashboard_photos: all_photos
    stamps,           \* the clock readings taken for fallback names
    walk_end,         \* how get_dashboard_photos returned
    late,             \* number of clock jumps so far
    now,              \* the wall clock, milliseconds since midnight
    media_items,      \* download_all_media: media_items (empty until the walk returns)
    i,                \* download_all_media: i
    success_count,    \* download_all_media: success_count
    failed_count,     \* download_all_media: failed_count
    failures,         \* number of download_media calls that did not succeed
    attempted,        \* ids of the items download_media was called on, in order
    pauses,           \* for each 2-minute break, the attempts completed before it
    download_summary, \* download_all_media's return value
    returned,         \* main's return value
    raised,           \* the exception that left main uncaught
    exit_status       \* the process exit status

vars ==
    <<pc, date_from, date_to, roster, feed, creds, login_response, auth_data, console,
      login_posts, kids_gets, page_requests, media_gets, params, page, all_photos,
      stamps, walk_end, late, now, media_items, i, success_count, failed_count,
      failures, attempted, pauses, download_summary, returned, raised, exit_status>>

walk_vars == <<params, page, all_photos, stamps, walk_end, late, page_requests, kids_gets>>
loop_vars ==
    <<media_items, i, success_count, failed_count, failures, attempted, pauses,
      media_gets, download_summary>>
env_vars == <<date_from, date_to, roster, feed>>
login_vars == <<creds, login_response, auth_data, login_posts>>

Init ==
    /\ \/ /\ date_from \in FromArgs
          /\ date_to \in ToArgs
          /\ roster \in Rosters
          /\ feed \in ArgFeeds
       \/ /\ date_from = BothDates.date_from
          /\ date_to = BothDates.date_to
          /\ roster = TwoKids
          /\ feed \in LayoutFeeds \cup ContentFeeds \cup DateFeeds \cup LongFeeds
    /\ pc = "parse_args"
    /\ creds = NoneDict
    /\ login_response = NoResponse
    /\ auth_data = NoneDict
    /\ console = <<>>
    /\ login_posts = 0
    /\ kids_gets = 0
    /\ page_requests = <<>>
    /\ media_gets = 0
    /\ params = NoneDict
    /\ page = 0
    /\ all_photos = <<>>
    /\ stamps = <<>>
    /\ walk_end = "not called"
    /\ late = 0
    /\ now = StartMs
    /\ media_items = <<>>
    /\ i = 0
    /\ success_count = 0
    /\ failed_count = 0
    /\ failures = 0
    /\ attempted = <<>>
    /\ pauses = <<>>
    /\ download_summary = NoneDict
    /\ returned = "running"
    /\ raised = "none"
    /\ exit_status = -1

(***************************************************************************)
(* main.py:102-103  exit(main())                                           *)
(***************************************************************************)
\* An exit that treats only an explicit 0 as success.
ExitCode_noneIsError(value) == IF value = "0" THEN 0 ELSE 1

\* The status exit() gives the process for main's return value: None is 0.
ExitCode(value) == IF value = "None" THEN 0 ELSE IF value = "0" THEN 0 ELSE 1

\* main returns `value` and the process exits.
Return(value) ==
    /\ pc' = "exit"
    /\ returned' = value
    /\ exit_status' = ExitCode(value)
    /\ raised' = raised

(***************************************************************************)
(* main.py:39-52  validate the date arguments                              *)
(***************************************************************************)
\* `if args.date_x:` then strptime; TRUE when no ValueError is raised.
DateArgOk(arg) == Truthy(arg) => StrptimeOk(arg)

ValidateArgs ==
    /\ pc = "parse_args"
    /\ IF ~DateArgOk(date_from)
       THEN /\ console' = Append(console, "Error: --from date must be in YYYY-MM-DD format")
            /\ Return("1")
       ELSE IF ~DateArgOk(date_to)
       THEN /\ console' = Append(console, "Error: --to date must be in YYYY-MM-DD format")
            /\ Return("1")
       ELSE /\ pc' = "load_credentials"
            /\ UNCHANGED <<console, returned, raised, exit_status>>
    /\ UNCHANGED <<env_vars, login_vars, walk_vars, loop_vars, now>>

(***************************************************************************)
(* main.py:62-68, login.py:8-15  load the credentials                      *)
(***************************************************************************)
\* all(creds.values())
AllCreds(c) == c.url # "None" /\ c.username # "None" /\ c.password # "None"

LoadCredentials ==
    /\ pc = "load_credentials"
    /\ \E c \in CredSets :
        /\ creds' = c
        /\ IF ~AllCreds(c)
           THEN /\ console' = Append(console, "Error: Missing credentials in .env.secrets file")
                /\ Return("None")
           ELSE /\ pc' = "login"
                /\ UNCHANGED <<console, returned, raised, exit_status>>
    /\ UNCHANGED <<env_vars, login_response, auth_data, login_posts, walk_vars, loop_vars, now>>

(***************************************************************************)
(* main.py:70-76, login.py:17-61  log in                                   *)
(***************************************************************************)
\* response.raise_for_status(): raises HTTPError for a 4xx or 5xx status.
RaisesForStatus(status) == status \in 400..599

\* login_to_procare's return value for the answer: the parsed body, or None
\* from the except clause (lines 56-61).
LoginResult(response) ==
    IF response.status = 0 \/ RaisesForStatus(response.status)
    THEN NoneDict
    ELSE [auth_token |-> "token", user_id |-> "user", base_url |-> "https://site"]

\* What the except clause prints (lines 57-60): the status and body only when
\* the exception carries a response.
LoginDiagnostics(response) ==
    IF response.status = 0 THEN <<"Login failed">>
    ELSE <<"Login failed", "Response status: " \o ToString(response.status),
           "Response body: " \o response.body>>

\* A check that lets a failed login through.
NotLoggedIn_never(auth) == FALSE

\* main.py:74  if not auth_data
NotLoggedIn(auth) == auth = NoneDict

Login ==
    /\ pc = "login"
    /\ \E response \in LoginResponses :
        /\ login_response' = response
        /\ login_posts' = login_posts + 1
        /\ auth_data' = LoginResult(response)
        /\ IF NotLoggedIn(auth_data')
           THEN /\ console' = console \o LoginDiagnostics(response)
                               \o <<"Login failed. Cannot proceed with download.">>
                /\ Return("None")
           ELSE /\ pc' = "get_dashboard_photos"
                /\ console' = Append(console, "Login successful!")
                /\ UNCHANGED <<returned, raised, exit_status>>
    /\ UNCHANGED <<env_vars, creds, params, page, all_photos, stamps, walk_end, late,
                   page_requests, kids_gets, loop_vars, now>>

(***************************************************************************)
(* dashboard_scraper.py:11-53  get_kid_ids                                 *)
(***************************************************************************)
\* The list get_kid_ids returns: empty when the request fails (lines 51-53).
get_kid_ids(answer) == IF answer.status = "error" THEN <<>> ELSE answer.kids

(***************************************************************************)
(* dashboard_scraper.py:68-104  get_dashboard_photos up to its loop, as    *)
(* download_all_media calls it (line 296: kid_id is None)                  *)
(***************************************************************************)
\* Lines 68-70 and 98-99: date_to defaults to today when None, and is sent
\* when truthy.
DateToParam(arg, clock) ==
    IF arg = None THEN StrftimeDate(clock)
    ELSE IF Truthy(arg) THEN Str(arg) ELSE Absent

\* Lines 100-101: date_from is sent when truthy.
DateFromParam(arg) == IF Truthy(arg) THEN Str(arg) ELSE Absent

\* Lines 92-101: the params dict before the loop.
InitialParams(kid_id, from_arg, to_arg, clock) ==
    [kid_id |-> kid_id, page |-> 1,
     date_to |-> DateToParam(to_arg, clock),
     date_from |-> DateFromParam(from_arg)]

StartWalk ==
    /\ pc = "get_dashboard_photos"
    /\ kids_gets' = kids_gets + 1
    /\ LET kids == get_kid_ids(roster)
       IN  IF kids = <<>>
           THEN /\ walk_end' = "no kids"
                /\ media_items' = <<>>
                /\ pc' = "walked"
                /\ console' = IF roster.status = "error"
                              THEN Append(console, "Error fetching kids")
                              ELSE console
                /\ UNCHANGED <<params, page>>
           ELSE /\ params' = InitialParams(kids[1], date_from, date_to, now)
                /\ page' = 1
                /\ walk_end' = "walking"
                /\ pc' = "walk"
                /\ UNCHANGED <<media_items, console>>
    /\ UNCHANGED <<env_vars, login_vars, all_photos, stamps, late, page_requests, now,
                   i, success_count, failed_count, failures, attempted, pauses,
                   media_gets, download_summary, returned, raised, exit_status>>

(***************************************************************************)
(* dashboard_scraper.py:106-194  one iteration of get_dashboard_photos'    *)
(* loop, with the return that follows a break or a request error           *)
(***************************************************************************)
\* Params rebuilt for every page after the first, without the filters.
RequestParams_reset(current, p) ==
    IF p = 1 THEN [current EXCEPT !.page = p]
    ELSE [kid_id |-> current.kid_id, page |-> p, date_to |-> Absent, date_from |-> Absent]

\* Line 108: the params of the request for page p.
RequestParams(current, p) == [current EXCEPT !.page = p]

\* Line 176: data.get('per_page', 30)
PerPage(data) == IF data.has_per_page THEN data.per_page ELSE DefaultPerPage

\* A last-page test that also stops on a page of exactly the advertised size.
IsShortPage_inclusive(n, per_page) == n <= per_page

\* Line 177: the page is the last one.
IsShortPage(n, per_page) == n < per_page

\* A safety limit that is off by one.
PastPageLimit_early(p) == p >= PageLimit

\* Line 183: the safety limit, tested after page += 1.
PastPageLimit(p) == p > PageLimit

\* An except clause that hands back what was accumulated.
OnRequestException_partial(accumulated) == accumulated

\* Lines 192-194: what the except clause returns, all_photos being what the
\* loop has accumulated.
OnRequestException(accumulated) == <<>>

\* Where the clock may jump while a page of n activities is handled: before
\* the first or before the second activity.
LatePoints(n) == IF late < MaxLate THEN {k \in 1..n : k <= 2} ELSE {}

FetchPage ==
    /\ pc = "walk"
    /\ params' = RequestParams(params, page)
    /\ page_requests' = Append(page_requests, params')
    /\ LET data == ServerPage(feed, page)
           daily_activities == [k \in 1..Len(data.acts) |-> Activity(data.acts[k], page, k)]
           t0 == now + (IF page > 1 THEN PageDelayMs ELSE 0)
       IN  \E tickAt \in {0} \cup LatePoints(Len(data.acts)) :
             LET Clock == [k \in 1..Len(data.acts) |->
                             t0 + (IF tickAt # 0 /\ k >= tickAt THEN LatencyMs ELSE 0)]
             IN  /\ now' = t0 + (IF tickAt # 0 THEN LatencyMs ELSE 0)
                 /\ late' = late + (IF tickAt # 0 THEN 1 ELSE 0)
                 /\ IF data.status = "error"
                    THEN /\ console' = Append(console, "Error fetching activities")
                         /\ media_items' = OnRequestException(all_photos)
                         /\ walk_end' = "request error"
                         /\ pc' = "walked"
                         /\ UNCHANGED <<page, all_photos, stamps>>
                    ELSE IF daily_activities = <<>>
                    THEN /\ media_items' = all_photos
                         /\ walk_end' = "empty page"
                         /\ pc' = "walked"
                         /\ UNCHANGED <<page, all_photos, stamps, console>>
                    ELSE /\ all_photos' = all_photos \o MediaFrom(daily_activities, Clock)
                         /\ stamps' = stamps \o StampsFrom(daily_activities, Clock)
                         /\ IF IsShortPage(Len(daily_activities), PerPage(data))
                            THEN /\ media_items' = all_photos'
                                 /\ walk_end' = "short page"
                                 /\ pc' = "walked"
                                 /\ UNCHANGED <<page, console>>
                            ELSE /\ page' = page + 1
                                 /\ IF PastPageLimit(page')
                                    THEN /\ console' = Append(console, "Warning: Reached page limit of 100")
                                         /\ media_items' = all_photos'
                                         /\ walk_end' = "page limit"
                                         /\ pc' = "walked"
                                    ELSE /\ pc' = "walk"
                                         /\ UNCHANGED <<media_items, walk_end, console>>
    /\ UNCHANGED <<env_vars, login_vars, kids_gets, i, success_count, failed_count,
                   failures, attempted, pauses, media_gets, download_summary,
                   returned, raised, exit_status>>

(***************************************************************************)
(* dashboard_scraper.py:298-348  download_all_media after the walk         *)
(***************************************************************************)
CountVideos(items) == Cardinality({k \in 1..Len(items) : items[k].is_video})

\* Lines 334-340, and line 299 for an empty walk.
Summary(items, succeeded, failed) ==
    [success |-> succeeded, failed |-> failed, total |-> Len(items),
     photos |-> Len(items) - CountVideos(items), videos |-> CountVideos(items)]

\* Lines 298-317.
StartDownloads ==
    /\ pc = "walked"
    /\ IF media_items = <<>>
       THEN /\ download_summary' = Summary(<<>>, 0, 0)
            /\ pc' = "summary"
            /\ i' = i
       ELSE /\ i' = 1
            /\ pc' = "download"
            /\ UNCHANGED download_summary
    /\ UNCHANGED <<env_vars, login_vars, walk_vars, console, now, media_items,
                   success_count, failed_count, failures, attempted, pauses, media_gets,
                   returned, raised, exit_status>>

\* A break taken on the item whose number is a multiple, not after it.
NeedsBreak_onMultiple(n) == n % BreakEvery = 0

\* Line 324: a break is taken before item number n.
NeedsBreak(n) == n > 1 /\ (n - 1) % BreakEvery = 0

\* dashboard_scraper.py:243-281: TRUE when download_media returns True, FALSE
\* when it returns False; os.makedirs (line 246) is outside the try, so its
\* error is not caught.
DownloadReturns(outcome) == outcome = "ok"
DownloadRaises(outcome) == outcome = "makedirs_error"

\* Lines 319-340: one iteration of the loop, and the summary after the last.
DownloadNext ==
    /\ pc = "download"
    /\ LET took_break == NeedsBreak(i)
       IN  /\ pauses' = IF took_break THEN Append(pauses, Len(attempted)) ELSE pauses
           /\ attempted' = Append(attempted, media_items[i].id)
           /\ \E outcome \in DownloadOutcomes(failures) :
                /\ now' = now + (IF took_break THEN BreakMs ELSE 0)
                              + (IF DownloadReturns(outcome) THEN DownloadDelayMs ELSE 0)
                /\ media_gets' = media_gets + (IF DownloadRaises(outcome) THEN 0 ELSE 1)
                /\ failures' = failures + (IF DownloadReturns(outcome) THEN 0 ELSE 1)
                /\ IF DownloadRaises(outcome)
                   THEN /\ raised' = "OSError"
                        /\ pc' = "exit"
                        /\ exit_status' = 1
                        /\ UNCHANGED <<i, success_count, failed_count, download_summary, returned>>
                   ELSE /\ success_count' = success_count + (IF DownloadReturns(outcome) THEN 1 ELSE 0)
                        /\ failed_count' = failed_count + (IF DownloadReturns(outcome) THEN 0 ELSE 1)
                        /\ IF i = Len(media_items)
                           THEN /\ download_summary' = Summary(media_items, success_count', failed_count')
                                /\ pc' = "summary"
                                /\ i' = i
                           ELSE /\ i' = i + 1
                                /\ pc' = "download"
                                /\ UNCHANGED download_summary
                        /\ UNCHANGED <<returned, raised, exit_status>>
    /\ UNCHANGED <<env_vars, login_vars, walk_vars, console, media_items>>

(***************************************************************************)
(* main.py:87-100  print the summary and return 0                          *)
(***************************************************************************)
PrintSummary ==
    /\ pc = "summary"
    /\ console' = Append(console, "DOWNLOAD SUMMARY")
    /\ Return("0")
    /\ UNCHANGED <<env_vars, login_vars, walk_vars, loop_vars, now>>

Next ==
    \/ ValidateArgs
    \/ LoadCredentials
    \/ Login
    \/ StartWalk
    \/ FetchPage
    \/ StartDownloads
    \/ DownloadNext
    \/ PrintSummary

Spec == Init /\ [][Next]_vars

(***************************************************************************)
(* What the properties below speak of.                                     *)
(***************************************************************************)
Ids(items) == [k \in 1..Len(items) |-> items[k].id]
PageNumbers == [k \in 1..Len(page_requests) |-> page_requests[k].page]
OneTo(n) == [k \in 1..n |-> k]

\* get_dashboard_photos reached its loop (the roster was not empty).
WalkStarted == walk_end \notin {"not called", "no kids"}
\* get_dashboard_photos has returned from its loop.
WalkReturned == pc = "walked" /\ WalkStarted

\* An activity record qualifies for a MediaItem: its kind is photo or video
\* and its media sub-record is populated with a video URL it is marked to
\* use, or with a main image URL.
Qualifies(activity) ==
    /\ activity.activity_type = "photo_activity" \/ activity.activity_type = "video_activity"
    /\ activity.activiable # NoneDict
    /\ activity.activiable # EmptyDict
    /\ \/ activity.activiable.is_video /\ activity.activiable.video_file_url \notin {None, <<>>}
       \/ activity.activiable.main_url \notin {None, <<>>}

\* The ids of the qualifying records of page p of feed f, in page order.
QualifyingOnPage(f, p) ==
    LET acts == ServerPage(f, p).acts
    IN  SelectSeq([k \in 1..Len(acts) |-> <<p, k>>],
                  LAMBDA id : Qualifies(Activity(acts[id[2]], p, id[2])))

RECURSIVE QualifyingBetween(_, _, _)
\* The ids of the qualifying records of pages lo..hi, in page and in-page order.
QualifyingBetween(f, lo, hi) ==
    IF lo > hi THEN <<>>
    ELSE IF lo = hi THEN QualifyingOnPage(f, lo)
    ELSE QualifyingBetween(f, lo, (lo + hi) \div 2)
            \o QualifyingBetween(f, ((lo + hi) \div 2) + 1, hi)

\* The ids of the qualifying records of pages 1..n.
QualifyingIds(f, n) == QualifyingBetween(f, 1, n)

\* The activity record an item was made from.
SourceActivity(id) == Activity(ServerPage(feed, id[1]).acts[id[2]], id[1], id[2])

\* The server's answer for page k is a full page / a short page.
FullAnswer(k) ==
    LET data == ServerPage(feed, k)
    IN  data.status = "ok" /\ Len(data.acts) >= PerPage(data)
ShortAnswer(k) ==
    LET data == ServerPage(feed, k)
    IN  data.status = "ok" /\ Len(data.acts) < PerPage(data)
NonEmptyAnswer(k) == Len(ServerPage(feed, k).acts) > 0

\* The pages looked at when a property speaks of "any sequence of pages".
Horizon == 2 * PageLimit + 1
\* The pages that are not full; the first of them is the only n for which
\* "pages 1..n-1 are full and page n is short" can hold.
NotFull == {k \in 1..Horizon : ~FullAnswer(k)}
FirstNotFull == CHOOSE k \in NotFull : \A j \in NotFull : k <= j

(***************************************************************************)
(* C1 -- a request error in the feed walk.                                 *)
(***************************************************************************)
RequestFailedAfterFirstPage ==
    WalkReturned /\ walk_end = "request error" /\ Len(page_requests) >= 2

\* C1 as claimed: when page requests 1..k-1 succeed and request k (k >= 2)
\* raises a request error, the walker returns the items of pages 1..k-1 in
\* order, and does not re-raise.
C1_PartialResultsReturned ==
    RequestFailedAfterFirstPage =>
        /\ media_items = all_photos
        /\ Ids(media_items) = QualifyingIds(feed, Len(page_requests) - 1)
        /\ raised = "none"

\* C1 as amended: when a page request raises a request error, the walker
\* returns the empty list, whatever pages 1..k-1 gave (which all_photos still
\* holds), and does not re-raise: no download is attempted and the run goes
\* on to its summary.
C1_EmptyOnRequestError ==
    walk_end = "request error" =>
        /\ pc \in {"walked", "summary", "exit"}
        /\ media_items = <<>>
        /\ Ids(all_photos) = QualifyingIds(feed, Len(page_requests) - 1)
        /\ raised = "none"
        /\ attempted = <<>>
        /\ pc = "exit" => exit_status = 0 /\ download_summary.total = 0

C1_Witness ==
    /\ RequestFailedAfterFirstPage
    /\ all_photos # <<>>
    /\ media_items = <<>>

(***************************************************************************)
(* C2 -- the walk ends on a short page.                                    *)
(***************************************************************************)
\* Pages 1..n-1 are full and page n is short: n is the first page that is
\* not full, and it is short.
ShortPageAt(n) == n = FirstNotFull /\ ShortAnswer(n)

WalkedExactly(n) ==
    /\ PageNumbers = OneTo(n)
    /\ Ids(media_items) = QualifyingIds(feed, n)

\* C2 as claimed: for any pages of which 1..n-1 have at least per_page
\* activities and page n has fewer, the walker requests pages 1..n, in order
\* and no other, and returns their items in page and in-page order.
C2_StopsOnShortPage ==
    (WalkReturned /\ NotFull # {}) =>
        LET n == FirstNotFull
        IN  ShortPageAt(n) => WalkedExactly(n)

\* C2 as amended: the same, for n no greater than the page limit of 100 and
\* pages 1..n-1 not empty.
C2_StopsOnShortPageWithinLimit ==
    (WalkReturned /\ NotFull # {}) =>
        LET n == FirstNotFull
        IN  (/\ ShortPageAt(n)
             /\ n <= PageLimit
             /\ \A k \in 1..(n - 1) : NonEmptyAnswer(k)) => WalkedExactly(n)

C2_Witness ==
    /\ WalkReturned
    /\ NotFull # {}
    /\ ShortPageAt(3)
    /\ walk_end = "short page"
    /\ Len(page_requests) = 3
    /\ Len(media_items) = 5

(***************************************************************************)
(* C3 -- the walk ends at the page limit.                                  *)
(***************************************************************************)
EveryPageFull == \A k \in 1..PageLimit : FullAnswer(k) /\ NonEmptyAnswer(k)

\* C3: page 101 is never requested; and when every page the server returns
\* is non-empty and full-sized, whatever size it advertises, the walker
\* requests exactly pages 1..100 and returns what they gave, without error.
C3_StopsAtPageLimit ==
    /\ \A k \in 1..Len(page_requests) : page_requests[k].page <= PageLimit
    /\ (WalkReturned /\ EveryPageFull) =>
          /\ PageNumbers = OneTo(PageLimit)
          /\ walk_end = "page limit"
          /\ Ids(media_items) = QualifyingIds(feed, PageLimit)
          /\ raised = "none"

C3_Witness ==
    /\ WalkReturned
    /\ EveryPageFull
    /\ ServerPage(feed, 1).per_page = 0
    /\ Len(page_requests) = PageLimit
    /\ Len(media_items) = 2 * PageLimit

(***************************************************************************)
(* C4 -- a failed download does not stop the batch.                        *)
(***************************************************************************)
BatchEnded == pc \in {"summary", "exit"} /\ media_items # <<>>

\* C4 as claimed: whichever downloads of a batch of N items fail, by a
\* network error or a local I/O error, creating the date directory included,
\* every item is attempted once in the order received, and the tally has
\* failed = the number that failed and success + failed = total = N.
C4_EveryItemAttempted ==
    BatchEnded =>
        /\ attempted = Ids(media_items)
        /\ download_summary # NoneDict
        /\ download_summary.failed = failures
        /\ download_summary.success + download_summary.failed = download_summary.total
        /\ download_summary.total = Len(media_items)

(***************************************************************************)
(* C5 -- where the 2-minute breaks fall.                                   *)
(***************************************************************************)
\* The number of multiples of 100 below the number of attempts started.
BreaksDue == IF attempted = <<>> THEN 0 ELSE (Len(attempted) - 1) \div 100

\* C5: a break is taken exactly between the end of attempt 100*k and the
\* start of attempt 100*k+1, whether the attempts succeeded or failed, and
\* nowhere else; a batch of 250 items ends with the breaks after its 100th
\* and 200th attempts.
C5_BreakPlacement ==
    /\ pauses = [k \in 1..BreaksDue |-> 100 * k]
    /\ (pc = "summary" /\ Len(media_items) = 250) =>
          pauses = <<100, 200>>

C5_Witness ==
    /\ pc = "summary"
    /\ Len(media_items) = 250
    /\ Len(attempted) = 250
    /\ pauses = <<100, 200>>
    /\ failed_count > 0
    /\ success_count > 0

(***************************************************************************)
(* C6 -- a failed login.                                                   *)
(***************************************************************************)
\* The login POST was answered with a status outside 2xx.
LoginRefused ==
    /\ login_response # NoResponse
    /\ login_response.status # 0
    /\ login_response.status \notin 200..299

\* The error the specification describes: typed, with the status and body.
AuthenticationError(response) ==
    [exception |-> "AuthenticationError", status |-> response.status, body |-> response.body]

OnlyTheLoginRequest ==
    /\ login_posts = 1
    /\ kids_gets = 0
    /\ page_requests = <<>>
    /\ media_gets = 0
    /\ attempted = <<>>

Printed(line) == \E k \in 1..Len(console) : console[k] = line

\* C6 as claimed: on a non-2xx answer login_to_procare fails with an
\* AuthenticationError carrying the status and body, and main aborts without
\* retry: one login request and no other request.
C6_TypedAuthenticationError ==
    LoginRefused =>
        /\ auth_data = AuthenticationError(login_response)
        /\ pc = "exit"
        /\ OnlyTheLoginRequest

\* C6 as amended: on a 4xx or 5xx answer login_to_procare prints the status
\* and the body and returns None, raising nothing, and main aborts without
\* retry: one login request and no other request.
C6_FailedLoginAborts ==
    LoginRefused =>
        /\ auth_data = NoneDict
        /\ raised = "none"
        /\ Printed("Response status: " \o ToString(login_response.status))
        /\ Printed("Response body: " \o login_response.body)
        /\ pc = "exit"
        /\ returned = "None"
        /\ OnlyTheLoginRequest

C6_Witness ==
    /\ LoginRefused
    /\ login_response.status = 401
    /\ Printed("Response status: 401")
    /\ pc = "exit"
    /\ login_posts = 1

(***************************************************************************)
(* C7 -- the exit status.                                                  *)
(***************************************************************************)
SummaryPrinted == Printed("DOWNLOAD SUMMARY")
ValidationFailed ==
    \/ Printed("Error: --from date must be in YYYY-MM-DD format")
    \/ Printed("Error: --to date must be in YYYY-MM-DD format")
StoppedOnCredentials == Printed("Error: Missing credentials in .env.secrets file")
StoppedOnLogin == Printed("Login failed. Cannot proceed with download.")

Supplied(arg) == arg # None /\ arg # <<>>

\* C8 as claimed: every page request of a walk carries the filters that were
\* supplied, with the supplied values, and only those; the same kid_id; and
\* a page number that goes up by one.
C8_OnlySuppliedFilters ==
    \A k \in 1..Len(page_requests) :
        LET request == page_requests[k]
        IN  /\ request.page = k
            /\ request.kid_id = roster.kids[1]
            /\ request.date_from = (IF Supplied(date_from) THEN Str(date_from) ELSE Absent)
            /\ request.date_to = (IF Supplied(date_to) THEN Str(date_to) ELSE Absent)

\* C8 as amended: every page request of a walk carries the same kid_id, a
\* page number that goes up by one, date_from exactly when it was supplied,
\* with the supplied value, and date_to with the supplied value or, when the
\* option was not given, with the date of the run (an empty --to sends none).
C8_FiltersOnEveryRequest ==
    \A k \in 1..Len(page_requests) :
        LET request == page_requests[k]
        IN  /\ request.page = k
            /\ request.kid_id = roster.kids[1]
            /\ request.date_from = (IF Supplied(date_from) THEN Str(date_from) ELSE Absent)
            /\ request.date_to =
                 (IF Supplied(date_to) THEN Str(date_to)
                  ELSE IF date_to = None THEN "2026-11-01" ELSE Absent)

C8_Witness ==
    /\ Len(page_requests) = 3
    /\ page_requests[3] =
         [kid_id |-> "kidA", page |-> 3, date_from |-> "2025-08-01", date_to |-> "2025-08-31"]
    /\ page_requests[1].date_to = "2025-08-31"

(***************************************************************************)
(* C9 -- which activity records become items.                              *)
(***************************************************************************)
\* The pages whose answer the walker has handled.
PagesHandled ==
    IF walk_end = "request error" THEN Len(page_requests) - 1 ELSE Len(page_requests)

\* C9 as claimed: a record that is no photo or video, or has no populated
\* media sub-record, or neither a usable video URL nor a main image URL,
\* gives no item, every other record gives exactly one, and the walk returns
\* as many items as the pages walked hold qualifying records.
C9_OneItemPerQualifyingRecord ==
    WalkReturned => Ids(media_items) = QualifyingIds(feed, PagesHandled)

\* C9 as amended: the same for the items the walker accumulates, and for
\* what a walk returns unless it ends on a request error; that walk returns
\* no item.
C9_OneItemPerQualifyingRecordUnlessError ==
    (pc \in {"walk", "walked"} /\ WalkStarted) =>
        /\ Ids(all_photos) = QualifyingIds(feed, PagesHandled)
        /\ WalkReturned =>
              media_items = (IF walk_end = "request error" THEN <<>> ELSE all_photos)

C9_Witness ==
    /\ WalkReturned
    /\ ServerPage(feed, 1).acts = <<"note", "video">>
    /\ Ids(media_items) = <<(<<1, 2>>)>>

(***************************************************************************)
(* C10 -- the file name of an item.                                        *)
(***************************************************************************)
LowerHexOrHyphen ==
    {"0", "1", "2", "3", "4", "5", "6", "7", "8", "9", "a", "b", "c", "d", "e", "f", "-"}

\* url holds, from position p on, 36 hyphenated hexadecimal characters and
\* then "." and ext.
TokenBefore(url, p, ext) ==
    /\ p + TokenLen + Len(ext) <= Len(url)
    /\ \A j \in p..(p + TokenLen - 1) : url[j] \in LowerHexOrHyphen
    /\ url[p + TokenLen] = "."
    /\ SubSeq(url, p + TokenLen + 1, p + TokenLen + Len(ext)) = ext

TokenName(url, p, ext) == Str(SubSeq(url, p, p + TokenLen - 1)) \o "." \o Str(ext)

\* media_<YYYYMMDD_HHMMSS>.<ext> for the second-th second of the day of the run.
StampedName(second, ext) ==
    "media_20261101_" \o D2(second \div 3600) \o D2((second \div 60) % 60)
        \o D2(second % 60) \o "." \o ext

\* The clock reading logged for the item, if it was named by the fallback.
StampOf(id) == {stamps[k] : k \in {j \in 1..Len(stamps) : stamps[j].id = id}}

AnyExt == {Jpg, Mp4, Mov, Avi}

\* C10 as claimed: a URL holding a 36-character hyphenated hexadecimal token
\* right before .jpg, .mp4, .mov or .avi gives <token>.<ext>, whichever kind
\* the item was classified as; any other URL gives the fallback name; two
\* fallback names of the same second are equal.
C10_TokenNameForAnyKind ==
    (pc \in {"walk", "walked"}) =>
        /\ \A k \in 1..Len(all_photos) :
              LET item == all_photos[k]
                  url == MediaUrl(SourceActivity(item.id).activiable)
                  places == {pe \in (1..Len(url)) \X AnyExt : TokenBefore(url, pe[1], pe[2])}
              IN  IF places # {}
                  THEN \E pe \in places : item.filename = TokenName(url, pe[1], pe[2])
                  ELSE \E st \in StampOf(item.id) :
                          item.filename = StampedName(st.second, item.file_extension)
        /\ \A a, b \in 1..Len(stamps) :
              stamps[a].second = stamps[b].second =>
                  \A x, y \in 1..Len(all_photos) :
                      (all_photos[x].id = stamps[a].id /\ all_photos[y].id = stamps[b].id)
                          => all_photos[x].filename = all_photos[y].filename

\* The extensions looked for in the URL of an item of this file_extension.
ExtsOfKind(file_extension) == IF file_extension = "mp4" THEN {Mp4, Mov, Avi} ELSE {Jpg}

\* C10 as amended: a URL in which "/" is followed by 36 characters of
\* [a-f0-9-] and then by .jpg, for an item taking its main image URL, or by
\* .mp4, .mov or .avi, for an item taking its video URL, gives <token>.<ext>
\* for the first such place; any other URL gives the fallback name
\* media_<YYYYMMDD_HHMMSS>.<jpg or mp4> of the second it is named in; two
\* fallback names of the same second and extension are equal.
C10_TokenNameForTheKind ==
    (pc \in {"walk", "walked"}) =>
        /\ \A k \in 1..Len(all_photos) :
              LET item == all_photos[k]
                  url == MediaUrl(SourceActivity(item.id).activiable)
                  places == {pe \in (2..Len(url)) \X ExtsOfKind(item.file_extension) :
                                url[pe[1] - 1] = "/" /\ TokenBefore(url, pe[1], pe[2])}
              IN  IF places # {}
                  THEN \E pe \in places :
                          /\ \A qe \in places : pe[1] <= qe[1]
                          /\ item.filename = TokenName(url, pe[1], pe[2])
                          /\ StampOf(item.id) = {}
                  ELSE \E st \in StampOf(item.id) :
                          item.filename = StampedName(st.second, item.file_extension)
        /\ \A a, b \in 1..Len(stamps) :
              (/\ stamps[a].second = stamps[b].second
               /\ stamps[a].file_extension = stamps[b].file_extension) =>
                  \A x, y \in 1..Len(all_photos) :
                      (all_photos[x].id = stamps[a].id /\ all_photos[y].id = stamps[b].id)
                          => all_photos[x].filename = all_photos[y].filename

C10_Witness ==
    /\ pc = "walked"
    /\ ServerPage(feed, 1).acts = <<"video_jpg_url", "video_mov">>
    /\ Len(all_photos) = 2
    /\ all_photos[1].filename = "media_20261101_120000.mp4"
    /\ all_photos[2].filename = "7e5c3a18-6d4b-907e-c3a1-f6d4b2907e5c.mov"

(***************************************************************************)
(* C11 -- the folder date falls back from the media record's date to the   *)
(* activity's day, and from there to the current date.                     *)
(***************************************************************************)
\* A date field is usable: present, not empty and parseable.
Usable(value) == ParsesToDay(GetOrEmpty(value))
ParsedDay(value) == StrftimeOf(ParserParse(value))

\* What the chain of the claim gives for an activity handled at clock `at`.
ChainDate(activity, at) ==
    IF Usable(activity.activiable.date) THEN ParsedDay(activity.activiable.date)
    ELSE IF Usable(activity.activity_date) THEN ParsedDay(activity.activity_date)
    ELSE StrftimeDate(at)

\* C11 as claimed: for every emitted item, folder_date is the parsed media
\* date when that field is usable, otherwise the parsed activity_date when
\* that one is usable, and the current date only when both are unusable.
C11_FolderDateFallbackChain ==
    \A x \in 1..Len(all_photos) :
        all_photos[x].folder_date = ChainDate(SourceActivity(all_photos[x].id), now)

\* What holds of the code: activity_date is consulted only when the media
\* date is missing, null or empty; a media date that is present and does not
\* parse sends the item to the current date.
C11_FolderDateOfFirstNonEmpty ==
    \A x \in 1..Len(all_photos) :
        LET activity == SourceActivity(all_photos[x].id)
            media_date == GetOrEmpty(activity.activiable.date)
            chosen == IF Truthy(media_date) THEN media_date
                      ELSE GetOrEmpty(activity.activity_date)
        IN  all_photos[x].folder_date =
                IF Usable(chosen) THEN ParsedDay(chosen) ELSE StrftimeDate(now)

\* A photo whose media date does not parse and whose activity_date does is
\* filed under the day of the run.
C11_UnparseableMediaDate ==
    /\ pc = "walked"
    /\ ServerPage(feed, 1).acts = <<DatedName("not_a_date", "day")>>
    /\ Len(all_photos) = 1
    /\ all_photos[1].folder_date = "2026-11-01"

\* The chain as far as it works: media date, then activity_date, then today.
C11_ChainReached ==
    /\ pc = "walked"
    /\ Len(all_photos) = 1
    /\ \/ /\ ServerPage(feed, 1).acts = <<DatedName("stamp", "day")>>
          /\ all_photos[1].folder_date = "2025-08-15"
       \/ /\ ServerPage(feed, 1).acts = <<DatedName("missing", "month_first")>>
          /\ all_photos[1].folder_date = "2025-08-13"
       \/ /\ ServerPage(feed, 1).acts = <<DatedName("null", "no_such_day")>>
          /\ all_photos[1].folder_date = "2026-11-01"

====
